---- MODULE Spec2Model ----
(***************************************************************************)
(* Persistence layer of the movie rating application (db/index.js), the    *)
(* slug helper (helpers/slugify.js) and the request handlers of app.js     *)
(* that call them.                                                         *)
(*                                                                         *)
(* Text values (titles, slugs, emails) are sequences of one-character      *)
(* strings; a character outside ASCII is written as its code point         *)
(* ("U+00E4").  The database is one record of tables; every function of    *)
(* the persistence layer is an operator from a database and its arguments  *)
(* to the database after the call, a flag telling whether the statement    *)
(* threw, and the value returned.                                          *)
(***************************************************************************)
EXTENDS Integers, Sequences, FiniteSets, Bags, TLC

VARIABLES db, proc

vars == <<db, proc>>

(***************************************************************************)
(* Bounds of the model.                                                    *)
(***************************************************************************)
MaxContentId == 2      \* contents rows ever inserted
MaxUserId    == 6      \* users rows ever inserted (three of them seeded)
MaxLikes     == 2      \* rows of likes
MaxFavorites == 1      \* rows of favorites
MaxClock     == 1      \* seconds datetime('now') takes its value from: 0..MaxClock
MaxInputLen  == 3      \* characters of an input of slugify
MaxSlugRows  == 3      \* contents rows ever inserted where slugs are resolved

(***************************************************************************)
(* Text                                                                    *)
(***************************************************************************)
\* SQL NULL / JavaScript null and undefined: no text value equals it.
NULL == <<"NULL">>

\* What .get() gives when no row matches: a value no row equals.
undefined == [undefined |-> TRUE]

LowerOf ==
  [A |-> "a", B |-> "b", C |-> "c", D |-> "d", E |-> "e", F |-> "f", G |-> "g",
   H |-> "h", I |-> "i", J |-> "j", K |-> "k", L |-> "l", M |-> "m", N |-> "n",
   O |-> "o", P |-> "p", Q |-> "q", R |-> "r", S |-> "s", T |-> "t", U |-> "u",
   V |-> "v", W |-> "w", X |-> "x", Y |-> "y", Z |-> "z"]

LowerChars == {LowerOf[k] : k \in DOMAIN LowerOf}

DigitChars == {"0", "1", "2", "3", "4", "5", "6", "7", "8", "9"}

\* String.prototype.normalize('NFKD') on one character: the characters that
\* decompose, each with its canonical decomposition.
Decomposition ==
  ("U+00E4" :> <<"a", "U+0308">>) @@ ("U+00F6" :> <<"o", "U+0308">>) @@
  ("U+00E9" :> <<"e", "U+0301">>) @@ ("U+00C4" :> <<"A", "U+0308">>)

\* The range U+0300..U+036F as far as the model's alphabet reaches into it.
CombiningMarks == {"U+0308", "U+0301"}

NFKDChar(ch) == IF ch \in DOMAIN Decomposition THEN Decomposition[ch] ELSE <<ch>>

\* .normalize('NFKD')
RECURSIVE NFKD(_)
NFKD(s) == IF s = <<>> THEN <<>> ELSE NFKDChar(Head(s)) \o NFKD(Tail(s))

\* .replace(/[\u0300-\u036f]/g, '')
RECURSIVE StripMarks(_)
StripMarks(s) ==
  IF s = <<>> THEN <<>>
  ELSE (IF Head(s) \in CombiningMarks THEN <<>> ELSE <<Head(s)>>) \o StripMarks(Tail(s))

toLowerCaseChar(ch) == IF ch \in DOMAIN LowerOf THEN LowerOf[ch] ELSE ch

\* .toLowerCase(), on the 26 ASCII letters
RECURSIVE toLowerCase(_)
toLowerCase(s) ==
  IF s = <<>> THEN <<>> ELSE <<toLowerCaseChar(Head(s))>> \o toLowerCase(Tail(s))

\* .replace(/&/g, ' und ')
RECURSIVE ReplaceAmpersands(_)
ReplaceAmpersands(s) ==
  IF s = <<>> THEN <<>>
  ELSE (IF Head(s) = "&" THEN <<" ", "u", "n", "d", " ">> ELSE <<Head(s)>>)
         \o ReplaceAmpersands(Tail(s))

\* .replace(/[^a-z0-9]+/g, '-'): every maximal run of other characters
\* becomes one hyphen.
RECURSIVE ReplaceNonAlnumRuns(_, _)
ReplaceNonAlnumRuns(s, inRun) ==
  IF s = <<>> THEN <<>>
  ELSE IF Head(s) \in LowerChars \cup DigitChars
       THEN <<Head(s)>> \o ReplaceNonAlnumRuns(Tail(s), FALSE)
       ELSE (IF inRun THEN <<>> ELSE <<"-">>) \o ReplaceNonAlnumRuns(Tail(s), TRUE)

\* .replace(/^-+|-+$/g, '')
RECURSIVE TrimLeadingDashes(_)
TrimLeadingDashes(s) ==
  IF s # <<>> /\ Head(s) = "-" THEN TrimLeadingDashes(Tail(s)) ELSE s

RECURSIVE TrimTrailingDashes(_)
TrimTrailingDashes(s) ==
  IF s # <<>> /\ s[Len(s)] = "-"
  THEN TrimTrailingDashes(SubSeq(s, 1, Len(s) - 1)) ELSE s

\* .replace(/-{2,}/g, '-')
RECURSIVE CollapseDashes(_)
CollapseDashes(s) ==
  IF Len(s) < 2 THEN s
  ELSE IF s[1] = "-" /\ s[2] = "-" THEN CollapseDashes(Tail(s))
       ELSE <<Head(s)>> \o CollapseDashes(Tail(s))

\* Mutation: slugify without .replace(/^-+|-+$/g, '').
slugifyWithoutTrim(input) ==
  IF input = <<>> \/ input = NULL THEN <<>>
  ELSE CollapseDashes(
         ReplaceNonAlnumRuns(
           ReplaceAmpersands(toLowerCase(StripMarks(NFKD(input)))), FALSE))

slugify(input) ==
  IF input = <<>> \/ input = NULL THEN <<>>
  ELSE CollapseDashes(
         TrimTrailingDashes(TrimLeadingDashes(
           ReplaceNonAlnumRuns(
             ReplaceAmpersands(toLowerCase(StripMarks(NFKD(input)))), FALSE))))

\* String(i) of a template literal, for i >= 0.
DigitOf == <<"0", "1", "2", "3", "4", "5", "6", "7", "8", "9">>

RECURSIVE NumberToString(_)
NumberToString(i) ==
  IF i < 10 THEN <<DigitOf[i + 1]>>
  ELSE NumberToString(i \div 10) \o <<DigitOf[(i % 10) + 1]>>

\* `${slug}-${i}`
Suffixed(slug, i) == slug \o <<"-">> \o NumberToString(i)

\* String.prototype.trim on the blanks of the model's alphabet.
RECURSIVE TrimLeft(_)
TrimLeft(s) == IF s # <<>> /\ Head(s) = " " THEN TrimLeft(Tail(s)) ELSE s

RECURSIVE TrimRight(_)
TrimRight(s) ==
  IF s # <<>> /\ s[Len(s)] = " " THEN TrimRight(SubSeq(s, 1, Len(s) - 1)) ELSE s

trim(s) == TrimRight(TrimLeft(s))

\* JavaScript truthiness of a text value or null.
Truthy(s) == s # NULL /\ s # <<>>

(***************************************************************************)
(* Schema (migrate)                                                        *)
(***************************************************************************)
Roles == {<<"a","d","m","i","n">>, <<"u","s","e","r">>, <<"e","d","i","t","o","r">>}

CATEGORIES == {<<"s","i","f","i">>, <<"k","r","i","m","i">>,
               <<"h","o","r","r","o","r">>, <<"k","o","m","o","e","d","i","e">>}

\* Comparison under COLLATE NOCASE: the 26 ASCII upper case letters fold.
RECURSIVE Nocase(_)
Nocase(s) ==
  IF s = <<>> THEN <<>>
  ELSE <<IF Head(s) \in DOMAIN LowerOf THEN LowerOf[Head(s)] ELSE Head(s)>>
         \o Nocase(Tail(s))

\* users: NOT NULL name and CHECK(role IN ('admin','user','editor')).
UsersRowCode(r) ==
  IF r.name = NULL THEN "SQLITE_CONSTRAINT_NOTNULL"
  ELSE IF r.role \notin Roles THEN "SQLITE_CONSTRAINT_CHECK"
  ELSE "OK"

\* Mutation: the unique index on users(email) without COLLATE NOCASE.
EmailIndexBinary(U) ==
  \A i, j \in DOMAIN U :
    (i # j /\ U[i].email # NULL /\ U[j].email # NULL) => U[i].email # U[j].email

\* idx_users_email_nocase: unique on email COLLATE NOCASE; NULLs are distinct
\* from each other.
EmailIndexOK(U) ==
  \A i, j \in DOMAIN U :
    (i # j /\ U[i].email # NULL /\ U[j].email # NULL)
      => Nocase(U[i].email) # Nocase(U[j].email)

\* Mutation: the contents table without the CHECK on category.
ContentsRowCodeWithoutCheck(r) ==
  IF r.title = NULL \/ r.description = NULL \/ r.image_path = NULL
     \/ r.category = NULL
  THEN "SQLITE_CONSTRAINT_NOTNULL"
  ELSE "OK"

\* contents: NOT NULL columns and CHECK(category IN ...).
ContentsRowCode(r) ==
  IF r.title = NULL \/ r.description = NULL \/ r.image_path = NULL
     \/ r.category = NULL
  THEN "SQLITE_CONSTRAINT_NOTNULL"
  ELSE IF r.category \notin CATEGORIES THEN "SQLITE_CONSTRAINT_CHECK"
  ELSE "OK"

\* Mutation: the unique index on contents(slug) is never created.
SlugIndexMissing(C) == TRUE

\* idx_contents_slug_unique.
SlugIndexOK(C) ==
  \A i, j \in DOMAIN C :
    (i # j /\ C[i].slug # NULL /\ C[j].slug # NULL) => C[i].slug # C[j].slug

\* FOREIGN KEY(owner_id) REFERENCES users(id), with foreign_keys = ON.
OwnerForeignKeyOK(d, r) == r.owner_id \in DOMAIN d.users

\* Mutation: likes and favorites without their foreign keys.
MembershipForeignKeysOff(d, u, c) == TRUE

\* likes / favorites: the two foreign keys of a row.
MembershipForeignKeysOK(d, u, c) == u \in DOMAIN d.users /\ c \in DOMAIN d.contents

\* The tables likes and favorites: a bag of rows <<user_id, content_id>>,
\* i.e. the number of rows of the table that hold each pair.
RowCount(t, r) == IF r \in DOMAIN t THEN t[r] ELSE 0

RowsWhere(t, S) == [r \in S |-> t[r]]

WithRow(t, r) == [x \in DOMAIN t \cup {r} |-> IF x = r THEN RowCount(t, r) + 1 ELSE t[x]]

\* Mutation: the tables without PRIMARY KEY (user_id, content_id).
PrimaryKeyMissing(t, r) == TRUE

\* PRIMARY KEY (user_id, content_id): the INSERT of a pair the table holds
\* is rejected.
PrimaryKeyOK(t, r) == r \notin DOMAIN t

\* A statement that violates a constraint throws a SqliteError carrying the
\* code of the constraint and changes nothing.  SQLite tests NOT NULL and
\* CHECK first, then the unique indexes, and the foreign keys at the end of
\* the statement.
Threw(d, code) == [db |-> d, threw |-> TRUE, ret |-> [code |-> code]]

Returned(d, v) == [db |-> d, threw |-> FALSE, ret |-> v]

Extend(f, k, v) == [x \in DOMAIN f \cup {k} |-> IF x = k THEN v ELSE f[x]]

Without(f, k) == [x \in DOMAIN f \ {k} |-> f[x]]

(***************************************************************************)
(* Users                                                                   *)
(***************************************************************************)
\* INSERT INTO users: AUTOINCREMENT id, then the table's constraints.
InsertUsersRow(d, row) ==
  LET id == d.seq.users + 1
      U  == Extend(d.users, id, row)
  IN  IF UsersRowCode(row) # "OK" THEN Threw(d, UsersRowCode(row))
      ELSE IF ~EmailIndexOK(U) THEN Threw(d, "SQLITE_CONSTRAINT_UNIQUE")
      ELSE Returned([d EXCEPT !.users = U, !.seq.users = id],
                    [lastInsertRowid |-> id])

insertUser(d, name, role) ==
  InsertUsersRow(d, [name |-> name, role |-> role, email |-> NULL,
                     password_hash |-> NULL])

\* SELECT ... FROM users WHERE email = ?: the column has no collation of its
\* own, so the comparison is binary; .get() gives the first row or undefined.
getUserByEmail(d, email) ==
  LET hits == {i \in DOMAIN d.users :
                 d.users[i].email # NULL /\ email # NULL /\ d.users[i].email = email}
  IN  IF hits = {} THEN undefined
      ELSE LET i == CHOOSE x \in hits : \A y \in hits : x <= y
           IN  [id |-> i, name |-> d.users[i].name, role |-> d.users[i].role,
                email |-> d.users[i].email,
                password_hash |-> d.users[i].password_hash]

createUser(d, name, email, passwordHash, role) ==
  InsertUsersRow(d, [name |-> name, role |-> role, email |-> email,
                     password_hash |-> passwordHash])

(***************************************************************************)
(* Contents                                                                *)
(***************************************************************************)
\* SELECT 1 FROM contents WHERE slug = ? LIMIT 1
exists(d, s) == \E i \in DOMAIN d.contents : d.contents[i].slug = s

RECURSIVE FirstFreeSuffix(_, _, _)
FirstFreeSuffix(d, slug, i) ==
  IF exists(d, Suffixed(slug, i)) THEN FirstFreeSuffix(d, slug, i + 1)
  ELSE Suffixed(slug, i)

\* Mutation: the suffix counter starts at 1.
makeUniqueContentSlugFromOne(d, baseSlug) ==
  LET slug == IF Truthy(baseSlug) THEN baseSlug ELSE <<"e","i","n","t","r","a","g">>
  IN  IF ~exists(d, slug) THEN slug ELSE FirstFreeSuffix(d, slug, 1)

makeUniqueContentSlug(d, baseSlug) ==
  LET slug == IF Truthy(baseSlug) THEN baseSlug ELSE <<"e","i","n","t","r","a","g">>
  IN  IF ~exists(d, slug) THEN slug ELSE FirstFreeSuffix(d, slug, 2)

\* INSERT INTO contents (..., slug, created_at) VALUES (...)
\* created_at of the INSERT: datetime('now').
Stamped(row, now) ==
  [title |-> row.title, description |-> row.description,
   category |-> row.category, image_path |-> row.image_path,
   owner_id |-> row.owner_id, slug |-> row.slug, created_at |-> now]

InsertContentsRow(d, row) ==
  LET id == d.seq.contents + 1
      C  == Extend(d.contents, id, Stamped(row, d.now))
  IN  IF ContentsRowCode(row) # "OK" THEN Threw(d, ContentsRowCode(row))
      ELSE IF ~SlugIndexOK(C) THEN Threw(d, "SQLITE_CONSTRAINT_UNIQUE")
      ELSE IF ~OwnerForeignKeyOK(d, row) THEN Threw(d, "SQLITE_CONSTRAINT_FOREIGNKEY")
      ELSE Returned([d EXCEPT !.contents = C, !.seq.contents = id],
                    [lastInsertRowid |-> id])

ContentsRow(title, description, category, imagePath, ownerId, slug) ==
  [title |-> title, description |-> description, category |-> category,
   image_path |-> imagePath, owner_id |-> ownerId, slug |-> slug]

insertContent(d, title, description, category, imagePath, ownerId) ==
  LET baseSlug == slugify(title)
      slug     == makeUniqueContentSlug(d, baseSlug)
  IN  InsertContentsRow(d, ContentsRow(title, description, category, imagePath,
                                       ownerId, slug))

getContentBySlug(d, slug) ==
  LET hits == {i \in DOMAIN d.contents : d.contents[i].slug = slug}
  IN  IF hits = {} THEN undefined
      ELSE LET i == CHOOSE x \in hits : \A y \in hits : x <= y
           IN  [id |-> i, title |-> d.contents[i].title,
                slug |-> d.contents[i].slug, ownerId |-> d.contents[i].owner_id]

\* Mutation: the two statements merged, image_path written whenever the
\* argument is not null.
updateContentAlwaysImage(d, id, title, description, category, imagePath) ==
  IF id \notin DOMAIN d.contents THEN Returned(d, [changes |-> 0])
  ELSE LET old == d.contents[id]
           new == IF imagePath # NULL
                  THEN [old EXCEPT !.title = title, !.description = description,
                                   !.category = category, !.image_path = imagePath]
                  ELSE [old EXCEPT !.title = title, !.description = description,
                                   !.category = category]
       IN  IF ContentsRowCode(new) # "OK" THEN Threw(d, ContentsRowCode(new))
           ELSE Returned([d EXCEPT !.contents[id] = new], [changes |-> 1])

\* UPDATE contents SET title, description, category[, image_path] WHERE id = ?
\* Mutation: the UPDATE also sets slug, to the slug of the new title.
updateContentNewSlug(d, id, title, description, category, imagePath) ==
  IF id \notin DOMAIN d.contents THEN Returned(d, [changes |-> 0])
  ELSE LET old == d.contents[id]
           new == [old EXCEPT !.title = title, !.description = description,
                              !.category = category,
                              !.slug = makeUniqueContentSlug(d, slugify(title))]
       IN  IF ContentsRowCode(new) # "OK" THEN Threw(d, ContentsRowCode(new))
           ELSE Returned([d EXCEPT !.contents[id] = new], [changes |-> 1])

updateContent(d, id, title, description, category, imagePath) ==
  IF id \notin DOMAIN d.contents THEN Returned(d, [changes |-> 0])
  ELSE LET old == d.contents[id]
           new == IF Truthy(imagePath)
                  THEN [old EXCEPT !.title = title, !.description = description,
                                   !.category = category, !.image_path = imagePath]
                  ELSE [old EXCEPT !.title = title, !.description = description,
                                   !.category = category]
       IN  IF ContentsRowCode(new) # "OK" THEN Threw(d, ContentsRowCode(new))
           ELSE Returned([d EXCEPT !.contents[id] = new], [changes |-> 1])

\* Mutation: the delete without the cascade (foreign_keys left off).
deleteContentByIdNoCascade(d, id) ==
  IF id \notin DOMAIN d.contents THEN Returned(d, [changes |-> 0])
  ELSE Returned([d EXCEPT !.contents = Without(d.contents, id)], [changes |-> 1])

\* DELETE FROM contents WHERE id = ?, with ON DELETE CASCADE of the likes and
\* favorites rows that reference the content.
deleteContentById(d, id) ==
  IF id \notin DOMAIN d.contents THEN Returned(d, [changes |-> 0])
  ELSE Returned([d EXCEPT !.contents  = Without(d.contents, id),
                          !.likes     = RowsWhere(d.likes, {r \in DOMAIN d.likes : r[2] # id}),
                          !.favorites = RowsWhere(d.favorites, {r \in DOMAIN d.favorites : r[2] # id})],
                [changes |-> 1])

(***************************************************************************)
(* Likes and favorites                                                     *)
(***************************************************************************)
\* SELECT COUNT(*) FROM likes WHERE content_id = ?
getLikeCount(d, contentId) ==
  BagCardinality(RowsWhere(d.likes, {r \in DOMAIN d.likes : r[2] = contentId}))

hasUserLiked(d, userId, contentId) == <<userId, contentId>> \in DOMAIN d.likes

\* DELETE FROM likes WHERE user_id = ? AND content_id = ?
DeleteLikesRow(d, userId, contentId) ==
  Returned([d EXCEPT !.likes = RowsWhere(d.likes, DOMAIN d.likes \ {<<userId, contentId>>})],
           [changes |-> RowCount(d.likes, <<userId, contentId>>)])

\* INSERT INTO likes (user_id, content_id) VALUES (?, ?)
InsertLikesRow(d, userId, contentId) ==
  IF ~PrimaryKeyOK(d.likes, <<userId, contentId>>)
  THEN Threw(d, "SQLITE_CONSTRAINT_PRIMARYKEY")
  ELSE IF ~MembershipForeignKeysOK(d, userId, contentId)
  THEN Threw(d, "SQLITE_CONSTRAINT_FOREIGNKEY")
  ELSE Returned([d EXCEPT !.likes = WithRow(d.likes, <<userId, contentId>>)],
                [changes |-> 1])

\* Mutation: the toggle never deletes (INSERT OR IGNORE in both branches).
toggleLikeInsertOnly(d, userId, contentId) ==
  LET w == IF MembershipForeignKeysOK(d, userId, contentId)
           THEN Returned([d EXCEPT !.likes = Extend(d.likes, <<userId, contentId>>, 1)],
                         [changes |-> 1])
           ELSE Threw(d, "SQLITE_CONSTRAINT_FOREIGNKEY")
  IN  IF w.threw THEN w
      ELSE Returned(w.db, [liked |-> TRUE, count |-> getLikeCount(w.db, contentId)])

\* Mutation: the statements forget the user_id condition, so the like is a
\* state of the content.
toggleLikeByContent(d, userId, contentId) ==
  LET liked == \E r \in DOMAIN d.likes : r[2] = contentId
      w     == IF liked
               THEN Returned([d EXCEPT !.likes =
                                RowsWhere(d.likes, {r \in DOMAIN d.likes : r[2] # contentId})],
                             [changes |-> 1])
               ELSE InsertLikesRow(d, userId, contentId)
  IN  IF w.threw THEN w
      ELSE Returned(w.db, [liked |-> ~liked, count |-> getLikeCount(w.db, contentId)])

\* Mutation: the count is read before the write.
toggleLikeStaleCount(d, userId, contentId) ==
  LET liked == <<userId, contentId>> \in DOMAIN d.likes
      w     == IF liked THEN DeleteLikesRow(d, userId, contentId)
                        ELSE InsertLikesRow(d, userId, contentId)
  IN  IF w.threw THEN w
      ELSE Returned(w.db, [liked |-> ~liked, count |-> getLikeCount(d, contentId)])

toggleLike(d, userId, contentId) ==
  LET liked == hasUserLiked(d, userId, contentId)
      w     == IF liked THEN DeleteLikesRow(d, userId, contentId)
                        ELSE InsertLikesRow(d, userId, contentId)
  IN  IF w.threw THEN w
      ELSE Returned(w.db, [liked |-> ~liked, count |-> getLikeCount(w.db, contentId)])

isFavorite(d, userId, contentId) == <<userId, contentId>> \in DOMAIN d.favorites

DeleteFavoritesRow(d, userId, contentId) ==
  Returned([d EXCEPT !.favorites =
              RowsWhere(d.favorites, DOMAIN d.favorites \ {<<userId, contentId>>})],
           [changes |-> RowCount(d.favorites, <<userId, contentId>>)])

InsertFavoritesRow(d, userId, contentId) ==
  IF ~PrimaryKeyOK(d.favorites, <<userId, contentId>>)
  THEN Threw(d, "SQLITE_CONSTRAINT_PRIMARYKEY")
  ELSE IF ~MembershipForeignKeysOK(d, userId, contentId)
  THEN Threw(d, "SQLITE_CONSTRAINT_FOREIGNKEY")
  ELSE Returned([d EXCEPT !.favorites = WithRow(d.favorites, <<userId, contentId>>)],
                [changes |-> 1])

toggleFavorite(d, userId, contentId) ==
  LET fav == isFavorite(d, userId, contentId)
      w   == IF fav THEN DeleteFavoritesRow(d, userId, contentId)
                    ELSE InsertFavoritesRow(d, userId, contentId)
  IN  IF w.threw THEN w
      ELSE Returned(w.db, [favorite |-> ~fav])

(***************************************************************************)
(* Startup: ensureDatabase opens the database file and runs migrate and    *)
(* seedDemoOnce on it.  A file without a table and a table without a row   *)
(* are the same database here, every CREATE being IF NOT EXISTS.  The      *)
(* field `now` is the second datetime('now') gives, kept beside the        *)
(* tables.                                                                 *)
(***************************************************************************)
DEMO_SEED_KEY == "demo_seed_v1"

\* The file new Database(dbPath) creates where there is none.
NewFile ==
  [users     |-> <<>>,
   contents  |-> <<>>,
   likes     |-> <<>>,
   favorites |-> <<>>,
   app_meta  |-> <<>>,
   seq       |-> [users |-> 0, contents |-> 0],
   now       |-> 0]

\* SELECT id, title FROM contents WHERE slug IS NULL OR TRIM(slug) = ''
RowsNeedingSlug(d) ==
  {i \in DOMAIN d.contents :
     d.contents[i].slug = NULL \/ trim(d.contents[i].slug) = <<>>}

\* One turn of the loop of the backfill:
\* update.run(makeUniqueContentSlug(instance, slugify(r.title || '')), r.id)
BackfillSlug(d, id) ==
  LET base   == slugify(d.contents[id].title)
      unique == makeUniqueContentSlug(d, base)
  IN  [d EXCEPT !.contents[id].slug = unique]

\* for (const r of rows) { ... }
RECURSIVE BackfillSlugs(_, _)
BackfillSlugs(d, rows) ==
  IF rows = <<>> THEN d
  ELSE BackfillSlugs(BackfillSlug(d, Head(rows)), Tail(rows))

\* The rows of a scan of the table: by ascending rowid.
RECURSIVE RowidOrder(_)
RowidOrder(S) ==
  IF S = {} THEN <<>>
  ELSE LET i == CHOOSE x \in S : \A y \in S : x <= y
       IN  <<i>> \o RowidOrder(S \ {i})

\* migrate on a file whose tables have the columns of this version: the
\* CREATE ... IF NOT EXISTS and ALTER statements find everything in place,
\* and the slug backfill runs over the rows that need one.  users.created_at
\* is not a field of the model's rows: every INSERT INTO users stores
\* datetime('now'), so UPDATE users ... WHERE created_at IS NULL OR
\* TRIM(created_at) = '' selects no row.
migrate(d) == BackfillSlugs(d, RowidOrder(RowsNeedingSlug(d)))

SeedUser(n, r) == [name |-> n, role |-> r, email |-> NULL, password_hash |-> NULL]

\* Mutation: seedDemoOnce without the look for the seed marker.
seedDemoAlways(d) ==
  LET d1 == InsertUsersRow(d, SeedUser(<<"M","a","x">>, <<"a","d","m","i","n">>)).db
      d2 == InsertUsersRow(d1, SeedUser(<<"E","r","i","k","a">>, <<"u","s","e","r">>)).db
      d3 == InsertUsersRow(d2, SeedUser(<<"S","a","m">>, <<"e","d","i","t","o","r">>)).db
  IN  [d3 EXCEPT !.app_meta = Extend(d3.app_meta, DEMO_SEED_KEY, d3.now)]

\* if (already) return; else the three INSERTs and the marker in one
\* transaction.
seedDemoOnce(d) ==
  IF DEMO_SEED_KEY \in DOMAIN d.app_meta THEN d
  ELSE LET d1 == InsertUsersRow(d, SeedUser(<<"M","a","x">>, <<"a","d","m","i","n">>)).db
           d2 == InsertUsersRow(d1, SeedUser(<<"E","r","i","k","a">>, <<"u","s","e","r">>)).db
           d3 == InsertUsersRow(d2, SeedUser(<<"S","a","m">>, <<"e","d","i","t","o","r">>)).db
       IN  [d3 EXCEPT !.app_meta = Extend(d3.app_meta, DEMO_SEED_KEY, d3.now)]

\* migrate(instance); seedDemoOnce(instance);
ensureDatabase(d) == seedDemoOnce(migrate(d))

(***************************************************************************)
(* Inputs                                                                  *)
(***************************************************************************)
Titles == {<<"a">>, <<"A">>, <<"a", " ", "2">>, <<"!">>}

StoreTitles == {<<"a">>, <<"A">>}

OwnerIds == {1}

Descriptions == {<<"d">>}

CategoryInputs == {<<"s","i","f","i">>}

ImageInputs == {<<"p">>}

NewImageInputs == {NULL}

Emails == {<<"a">>, <<"A">>, <<"b">>}

Names == {<<"n">>}

RoleInputs == {<<"u","s","e","r">>, <<"a","d","m","i","n">>, <<"x">>}

\* userId / ownerId of a call: 0 is the id of no user, 1 and 2 are seeded users.
ActorIds == {0, 1, 2}

ContentIds == 1..MaxContentId

Procs == {1, 2}

Idle == [pc |-> "idle"]

(***************************************************************************)
(* The calls of one process: better-sqlite3 is synchronous, so within the  *)
(* process a call of the persistence layer runs to its end.                *)
(***************************************************************************)
InsertUser(name, role) ==
  /\ db.seq.users < MaxUserId
  /\ db' = insertUser(db, name, role).db
  /\ UNCHANGED proc

CreateUser(name, email, role) ==
  /\ db.seq.users < MaxUserId
  /\ db' = createUser(db, name, email, <<"h">>, role).db
  /\ UNCHANGED proc

InsertContent(title, description, category, imagePath, ownerId) ==
  /\ db.seq.contents < MaxContentId
  /\ db' = insertContent(db, title, description, category, imagePath, ownerId).db
  /\ UNCHANGED proc

UpdateContent(id, title, description, category, imagePath) ==
  /\ db' = updateContent(db, id, title, description, category, imagePath).db
  /\ UNCHANGED proc

DeleteContentById(id) ==
  /\ db' = deleteContentById(db, id).db
  /\ UNCHANGED proc

ToggleLike(userId, contentId) ==
  /\ BagCardinality(db.likes) < MaxLikes \/ hasUserLiked(db, userId, contentId)
  /\ db' = toggleLike(db, userId, contentId).db
  /\ UNCHANGED proc

ToggleFavorite(userId, contentId) ==
  /\ BagCardinality(db.favorites) < MaxFavorites \/ isFavorite(db, userId, contentId)
  /\ db' = toggleFavorite(db, userId, contentId).db
  /\ UNCHANGED proc

Init ==
  /\ db = ensureDatabase(NewFile)
  /\ proc = [p \in Procs |-> Idle]

\* The calls on contents, likes and favorites.  The calls on users change
\* nothing these read; they have a specification of their own.
Next ==
  \/ \E t \in StoreTitles, ds \in Descriptions, c \in CategoryInputs,
        i \in ImageInputs, o \in ActorIds : InsertContent(t, ds, c, i, o)
  \/ \E id \in ContentIds, t \in StoreTitles, ds \in Descriptions,
        c \in CategoryInputs, i \in NewImageInputs : UpdateContent(id, t, ds, c, i)
  \/ \E id \in ContentIds : DeleteContentById(id)
  \/ \E u \in ActorIds, c \in ContentIds : ToggleLike(u, c)
  \/ \E u \in ActorIds, c \in ContentIds : ToggleFavorite(u, c)

Spec == Init /\ [][Next]_vars

\* The calls on contents alone, over titles that share normalized forms.
NextContents ==
  \/ \E t \in Titles, ds \in Descriptions, c \in CategoryInputs,
        i \in ImageInputs, o \in OwnerIds : InsertContent(t, ds, c, i, o)
  \/ \E id \in ContentIds, t \in Titles, ds \in Descriptions,
        c \in CategoryInputs, i \in NewImageInputs : UpdateContent(id, t, ds, c, i)
  \/ \E id \in ContentIds : DeleteContentById(id)

SpecContents == Init /\ [][NextContents]_vars

\* The calls on users.
NextUsers ==
  \/ \E n \in Names, r \in RoleInputs : InsertUser(n, r)
  \/ \E n \in Names, e \in Emails, r \in RoleInputs : CreateUser(n, e, r)

SpecUsers == Init /\ [][NextUsers]_vars

(***************************************************************************)
(* Two processes on one database file (journal_mode = WAL): a call of the  *)
(* persistence layer is a sequence of SQL statements, each of them atomic, *)
(* and the statements of the two processes interleave.  proc[p] holds the  *)
(* position of process p in its call and the call's local variables.       *)
(***************************************************************************)
Free(p) == proc[p].pc \in {"idle", "returned", "threw"}

InFlight(op) == Cardinality({p \in Procs : ~Free(p) /\ proc[p].op = op})

\* The call of process p ends: it returns r.ret or throws the error r.ret.
Finish(p, r) ==
  [pc |-> IF r.threw THEN "threw" ELSE "returned", op |-> proc[p].op,
   args |-> proc[p].args, ret |-> r.ret]

\* const liked = hasUserLiked({ userId, contentId });
ToggleLikeCheck(p, userId, contentId) ==
  /\ Free(p)
  /\ proc' = [proc EXCEPT ![p] =
       [pc |-> "write", op |-> "toggleLike",
        args |-> [userId |-> userId, contentId |-> contentId,
                 seen |-> hasUserLiked(db, userId, contentId)]]]
  /\ UNCHANGED db

\* if (liked) DELETE ... else INSERT ...
ToggleLikeWrite(p) ==
  /\ proc[p].pc = "write" /\ proc[p].op = "toggleLike"
  /\ LET a == proc[p].args
         w == IF a.seen THEN DeleteLikesRow(db, a.userId, a.contentId)
                              ELSE InsertLikesRow(db, a.userId, a.contentId)
     IN  /\ db' = w.db
         /\ proc' = [proc EXCEPT ![p] =
              IF w.threw THEN Finish(p, w) ELSE [proc[p] EXCEPT !.pc = "count"]]

\* return { liked: !liked, count: getLikeCount(contentId) };
ToggleLikeCount(p) ==
  /\ proc[p].pc = "count" /\ proc[p].op = "toggleLike"
  /\ proc' = [proc EXCEPT ![p] =
       Finish(p, Returned(db, [liked |-> ~proc[p].args.seen,
                               count |-> getLikeCount(db, proc[p].args.contentId)]))]
  /\ UNCHANGED db

\* const fav = isFavorite({ userId, contentId });
ToggleFavoriteCheck(p, userId, contentId) ==
  /\ Free(p)
  /\ proc' = [proc EXCEPT ![p] =
       [pc |-> "write", op |-> "toggleFavorite",
        args |-> [userId |-> userId, contentId |-> contentId,
                 seen |-> isFavorite(db, userId, contentId)]]]
  /\ UNCHANGED db

\* if (fav) DELETE ... else INSERT ...; return { favorite: !fav };
ToggleFavoriteWrite(p) ==
  /\ proc[p].pc = "write" /\ proc[p].op = "toggleFavorite"
  /\ LET a == proc[p].args
         w == IF a.seen THEN DeleteFavoritesRow(db, a.userId, a.contentId)
                              ELSE InsertFavoritesRow(db, a.userId, a.contentId)
     IN  /\ db' = w.db
         /\ proc' = [proc EXCEPT ![p] =
              Finish(p, IF w.threw THEN w
                        ELSE Returned(w.db, [favorite |-> ~a.seen]))]

\* A call that is one statement.
Call(p, op, args, r) ==
  /\ Free(p)
  /\ db' = r.db
  /\ proc' = [proc EXCEPT ![p] =
       [pc |-> IF r.threw THEN "threw" ELSE "returned", op |-> op, args |-> args,
        ret |-> r.ret]]

ProcDeleteContentById(p, id) ==
  Call(p, "deleteContentById", [id |-> id], deleteContentById(db, id))

ProcUpdateContent(p, id, title, description, category, imagePath) ==
  Call(p, "updateContent", [id |-> id, title |-> title],
       updateContent(db, id, title, description, category, imagePath))

\* insertContent up to the first query of makeUniqueContentSlug:
\* let slug = baseSlug || 'eintrag'; if (!exists(slug)) return slug; let i = 2;
InsertContentSlug(p, title, description, category, imagePath, ownerId) ==
  /\ Free(p)
  /\ db.seq.contents + InFlight("insertContent") < MaxContentId
  /\ LET baseSlug == slugify(title)
         slug == IF Truthy(baseSlug) THEN baseSlug
                 ELSE <<"e","i","n","t","r","a","g">>
         a == [title |-> title, description |-> description, category |-> category,
               imagePath |-> imagePath, ownerId |-> ownerId]
     IN  proc' = [proc EXCEPT ![p] =
           IF ~exists(db, slug)
           THEN [pc |-> "insert", op |-> "insertContent", args |-> a, slug |-> slug]
           ELSE [pc |-> "probe", op |-> "insertContent", args |-> a, slug |-> slug,
                 i |-> 2]]
  /\ UNCHANGED db

\* One test of the loop: while (exists(`${slug}-${i}`)) i++; return `${slug}-${i}`;
InsertContentProbe(p) ==
  /\ proc[p].pc = "probe" /\ proc[p].op = "insertContent"
  /\ LET candidate == Suffixed(proc[p].slug, proc[p].i)
     IN  proc' = [proc EXCEPT ![p] =
           IF exists(db, candidate)
           THEN [proc[p] EXCEPT !.i = @ + 1]
           ELSE [pc |-> "insert", op |-> "insertContent", args |-> proc[p].args,
                 slug |-> candidate]]
  /\ UNCHANGED db

\* stmt.run(title, description, category, imagePath, ownerId, slug)
InsertContentRun(p) ==
  /\ proc[p].pc = "insert" /\ proc[p].op = "insertContent"
  /\ LET a == proc[p].args
         w == InsertContentsRow(db, ContentsRow(a.title, a.description, a.category,
                                                a.imagePath, a.ownerId, proc[p].slug))
     IN  /\ db' = w.db
         /\ proc' = [proc EXCEPT ![p] =
              [pc |-> IF w.threw THEN "threw" ELSE "returned", op |-> "insertContent",
               args |-> a, slug |-> proc[p].slug, ret |-> w.ret]]

RaceTitles == {<<"a">>, <<"A">>}

RaceActorIds == {1}

NextRace ==
  \E p \in Procs :
    \/ \E u \in RaceActorIds, c \in ContentIds : ToggleLikeCheck(p, u, c)
    \/ ToggleLikeWrite(p)
    \/ ToggleLikeCount(p)
    \/ \E u \in RaceActorIds, c \in ContentIds : ToggleFavoriteCheck(p, u, c)
    \/ ToggleFavoriteWrite(p)
    \/ \E t \in RaceTitles, ds \in Descriptions, c \in CategoryInputs,
          i \in ImageInputs, o \in RaceActorIds : InsertContentSlug(p, t, ds, c, i, o)
    \/ InsertContentProbe(p)
    \/ InsertContentRun(p)
    \/ \E id \in ContentIds, t \in RaceTitles, ds \in Descriptions,
          c \in CategoryInputs, i \in NewImageInputs :
          ProcUpdateContent(p, id, t, ds, c, i)
    \/ \E id \in ContentIds : ProcDeleteContentById(p, id)

SpecRace == Init /\ [][NextRace]_vars

\* The contents calls of the two processes alone.
NextSlugRace ==
  \E p \in Procs :
    \/ \E t \in RaceTitles, ds \in Descriptions, c \in CategoryInputs,
          i \in ImageInputs, o \in RaceActorIds : InsertContentSlug(p, t, ds, c, i, o)
    \/ InsertContentProbe(p)
    \/ InsertContentRun(p)
    \/ \E id \in ContentIds, t \in RaceTitles, ds \in Descriptions,
          c \in CategoryInputs, i \in NewImageInputs :
          ProcUpdateContent(p, id, t, ds, c, i)
    \/ \E id \in ContentIds : ProcDeleteContentById(p, id)

SpecSlugRace == Init /\ [][NextSlugRace]_vars

(***************************************************************************)
(* POST /register: an async handler; between the getUserByEmail check and  *)
(* createUser it awaits bcrypt.hash, so two requests of one process        *)
(* interleave there.  proc[p] is the request.                              *)
(***************************************************************************)
Passwords == {<<"1","2","3","4","5","6","7">>, <<"1","2","3","4","5","6","7","8">>}

RegisterNames == {<<"n">>, <<" ">>}

RegisterEmails == {<<"a">>, <<"A">>, <<" ", "a">>}

MinPasswordLength == 8

RegisterErrors(d, name, email, password, password_confirm) ==
  (IF ~Truthy(trim(name)) THEN {"name"} ELSE {}) \cup
  (IF ~Truthy(trim(email)) THEN {"email"} ELSE {}) \cup
  (IF ~Truthy(password) THEN {"password"} ELSE {}) \cup
  (IF password # password_confirm THEN {"confirm"} ELSE {}) \cup
  (IF Truthy(password) /\ Len(password) < MinPasswordLength THEN {"length"} ELSE {}) \cup
  (IF Truthy(email) /\ getUserByEmail(d, toLowerCase(trim(email))) # undefined
   THEN {"registered"} ELSE {})

\* The handler up to `await bcrypt.hash(password, 11)`.
RegisterCheck(p, name, email, password, password_confirm) ==
  /\ Free(p)
  /\ db.seq.users < MaxUserId
  /\ LET errors == RegisterErrors(db, name, email, password, password_confirm)
         a == [name |-> name, email |-> email]
     IN  proc' = [proc EXCEPT ![p] =
           IF errors # {}
           THEN [pc |-> "returned", op |-> "register", args |-> a,
                 ret |-> [status |-> 400, errors |-> errors]]
           ELSE [pc |-> "hash", op |-> "register", args |-> a]]
  /\ UNCHANGED db

\* The handler after the await: createUser, the session, the redirect.  No
\* try/catch surrounds createUser: when it throws, the promise of the handler
\* rejects.  Express 4 drops that promise (no response is sent, the rejection
\* is unhandled); Express 5 passes it to the error handler, which answers 500.
RegisterCreate(p) ==
  /\ proc[p].pc = "hash" /\ proc[p].op = "register"
  /\ LET a == proc[p].args
         r == createUser(db, trim(a.name), toLowerCase(trim(a.email)), <<"h">>,
                         <<"u","s","e","r">>)
     IN  /\ db' = r.db
         /\ IF r.threw
            THEN \E outcome \in {[status |-> 0, errors |-> {"unhandledRejection"}],
                                  [status |-> 500, errors |-> {"error"}]} :
                   proc' = [proc EXCEPT ![p] =
                     [pc |-> "threw", op |-> "register", args |-> a, ret |-> outcome]]
            ELSE proc' = [proc EXCEPT ![p] =
                   [pc |-> "returned", op |-> "register", args |-> a,
                    ret |-> [status |-> 302, errors |-> {},
                             session |-> r.ret.lastInsertRowid]]]

NextRegister ==
  \E p \in Procs :
    \/ \E n \in RegisterNames, e \in RegisterEmails, pw \in Passwords,
          cf \in Passwords : RegisterCheck(p, n, e, pw, cf)
    \/ RegisterCreate(p)

SpecRegister == Init /\ [][NextRegister]_vars

(***************************************************************************)
(* Properties                                                              *)
(***************************************************************************)
SlugOf(r) == r.db.contents[r.ret.lastInsertRowid].slug

BaseOf(title) ==
  IF Truthy(slugify(title)) THEN slugify(title) ELSE <<"e","i","n","t","r","a","g">>

LikeRowsOf(d, c) == {r \in DOMAIN d.likes : r[2] = c}

\* C1: in every state reached by insertContent, updateContent and
\* deleteContentById calls, also interleaved ones of two processes, no two
\* rows of contents have the same slug.
C1_SlugsPairwiseDistinct ==
  \A i, j \in DOMAIN db.contents :
    i # j => db.contents[i].slug # db.contents[j].slug

\* Two contents whose titles normalize to the same slug are stored together.
C1_Witness ==
  \E i, j \in DOMAIN db.contents :
    /\ i # j
    /\ slugify(db.contents[i].title) = slugify(db.contents[j].title)
    /\ db.contents[i].slug # db.contents[j].slug

\* C2: in every state, for every user u and content c, toggleLike(u, c)
\* called twice in a row leaves hasUserLiked(u, c) and getLikeCount(c) as
\* they were before the first call.
C2_ToggleLikeTwiceRestores ==
  \A u \in ActorIds, c \in ContentIds :
    LET d1 == toggleLike(db, u, c).db
        d2 == toggleLike(d1, u, c).db
    IN  /\ hasUserLiked(d2, u, c) = hasUserLiked(db, u, c)
        /\ getLikeCount(d2, c) = getLikeCount(db, c)

\* A like of u on c stands next to another user's like: the first of the two
\* calls removes it, the second puts it back.
C2_Witness ==
  \E u \in ActorIds, c \in ContentIds :
    /\ <<u, c>> \in DOMAIN db.likes
    /\ Cardinality(LikeRowsOf(db, c)) = 2
    /\ <<u, c>> \notin DOMAIN toggleLike(db, u, c).db.likes
    /\ <<u, c>> \in DOMAIN toggleLike(toggleLike(db, u, c).db, u, c).db.likes

\* C3: toggleLike(u, c) of a user and a content flips the likes row (u, c)
\* and returns the new state and the number of likes rows of c after the
\* call; toggleFavorite(u, c) flips the favorites row (u, c) and returns the
\* new state.
C3_ToggleFlips ==
  [][\A u \in DOMAIN db.users, c \in DOMAIN db.contents :
       /\ ToggleLike(u, c) =>
            LET r == toggleLike(db, u, c)
            IN  /\ ~r.threw
                /\ (<<u, c>> \in DOMAIN db'.likes) = (<<u, c>> \notin DOMAIN db.likes)
                /\ r.ret.liked = (<<u, c>> \in DOMAIN db'.likes)
                /\ r.ret.count = Cardinality(LikeRowsOf(db', c))
       /\ ToggleFavorite(u, c) =>
            LET r == toggleFavorite(db, u, c)
            IN  /\ ~r.threw
                /\ (<<u, c>> \in DOMAIN db'.favorites) = (<<u, c>> \notin DOMAIN db.favorites)
                /\ r.ret.favorite = (<<u, c>> \in DOMAIN db'.favorites)]_vars

\* A content carries two likes and a favorite: both toggles have inserted,
\* and the next toggleLike of one of the two users returns liked = false
\* with count 1.
C3_Witness ==
  \E u \in DOMAIN db.users, c \in DOMAIN db.contents :
    /\ <<u, c>> \in DOMAIN db.likes /\ <<u, c>> \in DOMAIN db.favorites
    /\ Cardinality(LikeRowsOf(db, c)) = 2
    /\ toggleLike(db, u, c).ret = [liked |-> FALSE, count |-> 1]

\* C4: a deleteContentById(id) that removes a content leaves no likes row and
\* no favorites row of that content: its like count is 0 and hasUserLiked
\* and isFavorite are false for every user.
C4_DeleteCascades ==
  [][\A id \in DOMAIN db.contents :
       DeleteContentById(id) =>
         /\ id \notin DOMAIN db'.contents
         /\ \A r \in DOMAIN db'.likes \cup DOMAIN db'.favorites : r[2] # id
         /\ getLikeCount(db', id) = 0
         /\ \A u \in DOMAIN db.users \cup ActorIds :
              ~hasUserLiked(db', u, id) /\ ~isFavorite(db', u, id)
         /\ {r \in DOMAIN db'.likes : r[2] # id} = {r \in DOMAIN db.likes : r[2] # id}]_vars

\* A content with a like and a favorite, whose delete removes the content and
\* both rows.
C4_Witness ==
  \E id \in DOMAIN db.contents :
    /\ \E r \in DOMAIN db.likes : r[2] = id
    /\ \E r \in DOMAIN db.favorites : r[2] = id
    /\ LET d2 == deleteContentById(db, id).db
       IN  id \notin DOMAIN d2.contents /\ d2.likes # db.likes
           /\ d2.favorites # db.favorites

SameSlugTitles == {tt \in Titles \X Titles : slugify(tt[1]) = slugify(tt[2])}

InsertTwice(t1, t2) ==
  LET ds == CHOOSE x \in Descriptions : TRUE
      ct == CHOOSE x \in CategoryInputs : TRUE
      im == CHOOSE x \in ImageInputs : TRUE
      r1 == insertContent(db, t1, ds, ct, im, 1)
      r2 == insertContent(r1.db, t2, ds, ct, im, 1)
  IN  [threw |-> r1.threw \/ r2.threw, first |-> r1, second |-> r2]

\* C5 as claimed: in every state, for all titles T1 and T2 with
\* slugify(T1) = slugify(T2), insertContent with T1 and then with T2 gives
\* two contents with distinct slugs, the second slug being the first one
\* suffixed with '-2'.
C5_SecondIsFirstSuffixed2 ==
  \A tt \in SameSlugTitles :
    LET r == InsertTwice(tt[1], tt[2])
    IN  /\ ~r.threw
        /\ SlugOf(r.first) # SlugOf(r.second)
        /\ SlugOf(r.second) = Suffixed(SlugOf(r.first), 2)

\* C5 as amended: the two slugs are distinct, and the second is the first
\* suffixed with '-2' exactly when, before the first call, no content has the
\* normalized title ('eintrag' when it is empty) or that slug suffixed with
\* '-2' as its slug; then the first slug is the normalized title.
C5_SecondSuffixed2WhenBaseFree ==
  \A tt \in SameSlugTitles :
    LET r    == InsertTwice(tt[1], tt[2])
        base == BaseOf(tt[1])
        free == ~exists(db, base) /\ ~exists(db, Suffixed(base, 2))
    IN  /\ ~r.threw
        /\ SlugOf(r.first) # SlugOf(r.second)
        /\ (SlugOf(r.second) = Suffixed(SlugOf(r.first), 2)) = free
        /\ free => SlugOf(r.first) = base

\* Two contents created from titles with one normalized form are stored, the
\* first under the normalized title and the second under it suffixed '-2'.
C5_Witness ==
  \E i, j \in DOMAIN db.contents :
    /\ i < j
    /\ slugify(db.contents[i].title) = slugify(db.contents[j].title)
    /\ db.contents[i].slug = BaseOf(db.contents[i].title)
    /\ db.contents[j].slug = Suffixed(db.contents[i].slug, 2)

\* The state of the scenario before B's toggle: content c of owner b carries
\* the like of a and no other.
LikedByOtherOnly(a, b, c) ==
  /\ a # b
  /\ db.contents[c].owner_id = b
  /\ LikeRowsOf(db, c) = {<<a, c>>}

\* C6 as claimed: user B creates a content, user A likes it (count 1), then
\* B calls toggleLike on it: the like count after B's toggle is 0.
C6_CountZeroAfterOwnerToggle ==
  [][\A a, b \in DOMAIN db.users, c \in DOMAIN db.contents :
       (LikedByOtherOnly(a, b, c) /\ ToggleLike(b, c))
         => getLikeCount(db', c) = 0]_vars

\* C6 as amended: B's toggle inserts B's own like next to A's, so the like
\* count after it is 2 and the call returns liked = true.
C6_CountTwoAfterOwnerToggle ==
  [][\A a, b \in DOMAIN db.users, c \in DOMAIN db.contents :
       (LikedByOtherOnly(a, b, c) /\ ToggleLike(b, c))
         => /\ getLikeCount(db', c) = 2
            /\ LikeRowsOf(db', c) = {<<a, c>>, <<b, c>>}
            /\ toggleLike(db, b, c).ret = [liked |-> TRUE, count |-> 2]]_vars

\* The scenario has run: the content of b carries the likes of a and of b.
C6_Witness ==
  \E a, b \in DOMAIN db.users, c \in DOMAIN db.contents :
    /\ a # b
    /\ db.contents[c].owner_id = b
    /\ LikeRowsOf(db, c) = {<<a, c>>, <<b, c>>}

Finished(p, op) == proc[p].pc \in {"returned", "threw"} /\ proc[p].op = op

LostInsert(p, op) ==
  /\ proc[p].pc = "threw" /\ proc[p].op = op
  /\ ~proc[p].args.seen
  /\ proc[p].ret.code = "SQLITE_CONSTRAINT_PRIMARYKEY"

\* C7 as claimed: a toggleLike / toggleFavorite call that saw its row absent
\* and whose INSERT met the row another process inserted meanwhile does not
\* throw: it returns the present state (liked = true / favorite = true).
C7_LostInsertResolvesToPresent ==
  \A p \in Procs :
    ~LostInsert(p, "toggleLike") /\ ~LostInsert(p, "toggleFavorite")

\* C8: an INSERT of insertContent whose slug is the slug of a stored content
\* (another process inserted it after this call's makeUniqueContentSlug
\* found it free) throws and leaves the database as it was, and no INSERT
\* of insertContent leaves two contents with one slug.
C8_SecondInsertRejected ==
  [][\A p \in Procs :
       InsertContentRun(p) =>
         /\ exists(db, proc[p].slug)
              => /\ db' = db
                 /\ proc'[p].pc = "threw"
                 /\ proc'[p].ret.code = "SQLITE_CONSTRAINT_UNIQUE"
         /\ \A i, j \in DOMAIN db'.contents :
              i # j => db'.contents[i].slug # db'.contents[j].slug]_vars

\* Both processes found the same slug free; one INSERT returned and the
\* content is stored, the other threw.
C8_Witness ==
  \E p, q \in Procs :
    /\ p # q
    /\ proc[p].pc = "threw" /\ proc[p].op = "insertContent"
    /\ proc[q].pc = "returned" /\ proc[q].op = "insertContent"
    /\ proc[p].slug = proc[q].slug
    /\ proc[q].ret.lastInsertRowid \in DOMAIN db.contents
    /\ db.contents[proc[q].ret.lastInsertRowid].slug = proc[p].slug
    /\ Cardinality({i \in DOMAIN db.contents : db.contents[i].slug = proc[p].slug}) = 1

\* C9 as claimed: every POST /register request that has ended was answered,
\* with the redirect after a successful createUser or with the validation
\* response (400); a uniqueness violation of createUser ends in the latter.
C9_RegisterAnswersValidation ==
  \A p \in Procs :
    Finished(p, "register")
      => (proc[p].pc = "returned" /\ proc[p].ret.status \in {302, 400})

CaseVariants(e1, e2) == e1 # e2 /\ toLowerCase(e1) = toLowerCase(e2)

NullEmailUsers(d) == {i \in DOMAIN d.users : d.users[i].email = NULL}

UsersRowOf(d, i) ==
  [id |-> i, name |-> d.users[i].name, role |-> d.users[i].role,
   email |-> d.users[i].email, password_hash |-> d.users[i].password_hash]

\* C11 as claimed: in every state, for every stored user with email E and
\* every E' equal to E up to letter case, getUserByEmail(E') returns that
\* user's row with its password_hash; it returns nothing only when no stored
\* email equals the argument up to case.
C11_GetUserByEmailIgnoresCase ==
  \A e \in Emails :
    /\ \A i \in DOMAIN db.users :
         (db.users[i].email # NULL /\ Nocase(db.users[i].email) = Nocase(e))
           => getUserByEmail(db, e) = UsersRowOf(db, i)
    /\ getUserByEmail(db, e) = undefined
         => \A i \in DOMAIN db.users :
              db.users[i].email = NULL \/ Nocase(db.users[i].email) # Nocase(e)

(***************************************************************************)
(* Edits: insertContent, updateContent and deleteContentById over the      *)
(* values an edit can carry (a category outside the enumeration, no new    *)
(* image, the empty string as image path).                                 *)
(***************************************************************************)
NewTitles == {<<"a">>}

EditTitles == {<<"a">>, <<"b">>}

EditDescriptions == {<<"e">>}

EditCategoryInputs == {<<"s","i","f","i">>, <<"k","r","i","m","i">>, <<"x">>}

EditImageInputs == {NULL, <<>>, <<"q">>}

NextEdit ==
  \/ \E t \in NewTitles, ds \in Descriptions, c \in EditCategoryInputs,
        i \in ImageInputs, o \in OwnerIds : InsertContent(t, ds, c, i, o)
  \/ \E id \in ContentIds, t \in EditTitles, ds \in EditDescriptions,
        c \in EditCategoryInputs, i \in EditImageInputs :
        UpdateContent(id, t, ds, c, i)
  \/ \E id \in ContentIds : DeleteContentById(id)

SpecEdit == Init /\ [][NextEdit]_vars

\* C12: every updateContent of a stored content with a category of the
\* enumeration overwrites title, description and category of that content,
\* overwrites image_path when an imagePath is given and keeps it otherwise,
\* and leaves slug, owner and every other row of the database as they were.
C12_UpdateOverwritesKeepsImage ==
  [][\A id \in DOMAIN db.contents, t \in EditTitles, ds \in EditDescriptions,
        c \in EditCategoryInputs \cap CATEGORIES, i \in EditImageInputs :
       UpdateContent(id, t, ds, c, i) =>
         /\ updateContent(db, id, t, ds, c, i).ret = [changes |-> 1]
         /\ DOMAIN db'.contents = DOMAIN db.contents
         /\ db'.contents[id] =
              [db.contents[id] EXCEPT
                 !.title = t, !.description = ds, !.category = c,
                 !.image_path = IF i \in {NULL, <<>>} THEN db.contents[id].image_path
                                ELSE i]
         /\ \A j \in DOMAIN db.contents : j # id => db'.contents[j] = db.contents[j]
         /\ db'.users = db.users /\ db'.likes = db.likes
         /\ db'.favorites = db.favorites /\ db'.seq = db.seq]_vars

\* One content was updated with a new image, another without one: it has the
\* new description and the image it was created with.
C12_Witness ==
  \E i, j \in DOMAIN db.contents :
    /\ i # j
    /\ db.contents[i].image_path = <<"q">> /\ db.contents[i].title = <<"b">>
    /\ db.contents[j].image_path = <<"p">> /\ db.contents[j].description = <<"e">>
    /\ db.contents[j].category = <<"k","r","i","m","i">>

(***************************************************************************)
(* The routes of app.js that write contents, and the session they run     *)
(* under.  proc[p] is client p: its session (the user stored at login) and *)
(* the status of the last response it got.                                 *)
(***************************************************************************)
AccountEmails == {<<"a">>, <<"b">>, <<"c">>}

\* The accounts: users 4 and 5 with role 'user', user 6 with role 'admin';
\* the seeded users have no email and no password and cannot log in.
Accounts ==
  LET user  == <<"u","s","e","r">>
      admin == <<"a","d","m","i","n">>
      d4 == createUser(ensureDatabase(NewFile), <<"n">>, <<"a">>, <<"h">>, user).db
      d5 == createUser(d4, <<"n">>, <<"b">>, <<"h">>, user).db
  IN  createUser(d5, <<"n">>, <<"c">>, <<"h">>, admin).db

\* The store the requests start from: user 4 has created a content, user 5
\* has liked it and marked it as favorite.
Populated ==
  LET d1 == insertContent(Accounts, <<"a">>, <<"d">>, <<"s","i","f","i">>,
                          <<"p">>, 4).db
      d2 == toggleLike(d1, 5, 1).db
  IN  toggleFavorite(d2, 5, 1).db

LoginPasswords == {<<>>, <<"w">>, <<"1","2","3","4","5","6","7","8">>}

RouteSlugs == {<<"a">>, <<"a","-","2">>, <<"z">>}

RouteTitles == {<<"a">>, <<"b">>, <<" ">>}

RouteCategories == {<<"s","i","f","i">>, <<"x">>}

Uploads == {NULL, <<"q">>}

\* The clients that send requests; one client logs in as one account after
\* another.
Clients == {1}

\* bcrypt.compare: <<"h">> is the hash createUser is given here, the hash of
\* the one eight-character password.
bcryptCompare(password, hash) ==
  hash = <<"h">> /\ password = <<"1","2","3","4","5","6","7","8">>

LoggedIn(p) == proc[p].pc = "session"

\* res.status(...) / res.redirect(...): the session is kept.
Respond(p, status) ==
  IF LoggedIn(p) THEN [proc EXCEPT ![p] = [proc[p] EXCEPT !.status = status]]
  ELSE [proc EXCEPT ![p] = [pc |-> "anonymous", status |-> status]]

\* Mutation: the guard passes every logged-in user.
requireOwnerOrAdminAnyUser(user, item) == TRUE

requireOwnerOrAdmin(user, item) ==
  user.role = <<"a","d","m","i","n">> \/ item.ownerId = user.id

ContentErrors(title, description, category) ==
  (IF ~Truthy(trim(title)) THEN {"title"} ELSE {}) \cup
  (IF ~Truthy(trim(description)) THEN {"description"} ELSE {}) \cup
  (IF category \notin CATEGORIES THEN {"category"} ELSE {})

PostLogin(p, email, password) ==
  LET user == getUserByEmail(db, toLowerCase(trim(email)))
  IN  /\ UNCHANGED db
      /\ IF ~Truthy(trim(email)) \/ ~Truthy(password) THEN proc' = Respond(p, 400)
         ELSE IF user = undefined THEN proc' = Respond(p, 401)
         ELSE IF ~Truthy(user.password_hash) THEN proc' = Respond(p, 401)
         ELSE IF ~bcryptCompare(password, user.password_hash)
              THEN proc' = Respond(p, 401)
         ELSE proc' = [proc EXCEPT ![p] =
                [pc |-> "session", status |-> 302,
                 user |-> [id |-> user.id, name |-> user.name,
                           email |-> user.email, role |-> user.role]]]

PostLogout(p) ==
  /\ UNCHANGED db
  /\ proc' = [proc EXCEPT ![p] = [pc |-> "anonymous", status |-> 302]]

PostContent(p, title, description, category, file) ==
  /\ db.seq.contents < MaxContentId
  /\ IF ~LoggedIn(p) THEN UNCHANGED db /\ proc' = Respond(p, 302)
     ELSE IF ContentErrors(title, description, category) # {} \/ file = NULL
          THEN UNCHANGED db /\ proc' = Respond(p, 400)
     ELSE /\ db' = insertContent(db, trim(title), trim(description), category,
                                 file, proc[p].user.id).db
          /\ proc' = Respond(p, 302)

PostContentEdit(p, slug, title, description, category, file) ==
  LET existing == getContentBySlug(db, slug)
  IN  IF ~LoggedIn(p) THEN UNCHANGED db /\ proc' = Respond(p, 302)
      ELSE IF existing = undefined THEN UNCHANGED db /\ proc' = Respond(p, 404)
      ELSE IF ~requireOwnerOrAdmin(proc[p].user, existing)
           THEN UNCHANGED db /\ proc' = Respond(p, 403)
      ELSE IF ContentErrors(title, description, category) # {}
           THEN UNCHANGED db /\ proc' = Respond(p, 400)
      ELSE /\ db' = updateContent(db, existing.id, trim(title), trim(description),
                                  category, file).db
           /\ proc' = Respond(p, 302)

PostContentDelete(p, slug) ==
  LET item == getContentBySlug(db, slug)
  IN  IF ~LoggedIn(p) THEN UNCHANGED db /\ proc' = Respond(p, 302)
      ELSE IF item = undefined THEN UNCHANGED db /\ proc' = Respond(p, 404)
      ELSE IF ~requireOwnerOrAdmin(proc[p].user, item)
           THEN UNCHANGED db /\ proc' = Respond(p, 403)
      ELSE /\ db' = deleteContentById(db, item.id).db
           /\ proc' = Respond(p, 302)

InitRoutes ==
  /\ db = Populated
  /\ proc = [p \in Procs |-> Idle]

NextRoutes ==
  \E p \in Clients :
       \/ \E e \in AccountEmails, pw \in LoginPasswords : PostLogin(p, e, pw)
       \/ PostLogout(p)
       \/ \E t \in RouteTitles, ds \in Descriptions, c \in RouteCategories,
             f \in Uploads : PostContent(p, t, ds, c, f)
       \/ \E s \in RouteSlugs, t \in RouteTitles, ds \in Descriptions,
             c \in RouteCategories, f \in Uploads :
             PostContentEdit(p, s, t, ds, c, f)
       \/ \E s \in RouteSlugs : PostContentDelete(p, s)

SpecRoutes == InitRoutes /\ [][NextRoutes]_vars

ContentChanged(c) ==
  \/ c \notin DOMAIN db'.contents
  \/ db'.contents[c].title # db.contents[c].title
  \/ db'.contents[c].description # db.contents[c].description
  \/ db'.contents[c].category # db.contents[c].category
  \/ db'.contents[c].image_path # db.contents[c].image_path

SessionMayWrite(p, c) ==
  /\ LoggedIn(p)
  /\ \/ proc[p].user.role = <<"a","d","m","i","n">>
     \/ proc[p].user.id = db.contents[c].owner_id

EditOrDelete(p, slug) ==
  \/ PostContentDelete(p, slug)
  \/ \E t \in RouteTitles, ds \in Descriptions, c \in RouteCategories,
        f \in Uploads : PostContentEdit(p, slug, t, ds, c, f)

NoOwner == 0

\* Mutation: the conditions joined by OR instead of AND.
SelectedByEitherFilter(d, category, ownerId) ==
  {i \in DOMAIN d.contents :
     \/ ~Truthy(category) /\ ownerId = NoOwner
     \/ Truthy(category) /\ d.contents[i].category = category
     \/ ownerId # NoOwner /\ d.contents[i].owner_id = ownerId}

\* WHERE 1=1 [AND c.category = ?] [AND c.owner_id = ?]
Selected(d, category, ownerId) ==
  {i \in DOMAIN d.contents :
     /\ Truthy(category) => d.contents[i].category = category
     /\ ownerId # NoOwner => d.contents[i].owner_id = ownerId}

\* Mutation: the ORDER BY without its last term, c.id DESC.
OrderTermsWithoutId(d, sort, i) ==
  IF sort = "likes"
  THEN <<getLikeCount(d, i), d.contents[i].created_at>>
  ELSE <<d.contents[i].created_at>>

\* The ORDER BY terms of row i, all descending.
OrderTerms(d, sort, i) ==
  IF sort = "likes"
  THEN <<getLikeCount(d, i), d.contents[i].created_at, i>>
  ELSE <<d.contents[i].created_at, i>>

\* Row i may stand before row j: at the first term where they differ, i has
\* the greater value.
RECURSIVE MayPrecede(_, _)
MayPrecede(ki, kj) ==
  IF ki = <<>> THEN TRUE
  ELSE IF Head(ki) # Head(kj) THEN Head(ki) > Head(kj)
  ELSE MayPrecede(Tail(ki), Tail(kj))

Arrangements(S) ==
  {s \in [1..Cardinality(S) -> S] : \A a, b \in DOMAIN s : a # b => s[a] # s[b]}

ListedRow(d, i) ==
  [id |-> i, title |-> d.contents[i].title,
   description |-> d.contents[i].description,
   category |-> d.contents[i].category, imagePath |-> d.contents[i].image_path,
   slug |-> d.contents[i].slug, ownerId |-> d.contents[i].owner_id,
   ownerName |-> d.users[d.contents[i].owner_id].name,
   likeCount |-> getLikeCount(d, i), createdAt |-> d.contents[i].created_at]

\* Every answer the statement can give.
ListAnswers(d, category, ownerId, sort) ==
  {[k \in DOMAIN s |-> ListedRow(d, s[k])] :
     s \in {a \in Arrangements(Selected(d, category, ownerId)) :
              \A k \in DOMAIN a :
                k + 1 \in DOMAIN a
                  => MayPrecede(OrderTerms(d, sort, a[k]),
                                OrderTerms(d, sort, a[k + 1]))}}

listContentsFiltered(d, category, ownerId, sort) ==
  CHOOSE rows \in ListAnswers(d, category, ownerId, sort) : TRUE

\* The clock the INSERT statements read moves (the wall clock can be set
\* back as well as forward).
ClockMoves(t) ==
  /\ t # db.now
  /\ db' = [db EXCEPT !.now = t]
  /\ UNCHANGED proc

\* The calls that decide the order of the list: contents come and go, likes
\* are toggled, the clock moves between the inserts.
NextList ==
  \/ \E t \in StoreTitles, ds \in Descriptions, c \in CategoryInputs,
        i \in ImageInputs, o \in OwnerIds : InsertContent(t, ds, c, i, o)
  \/ \E id \in ContentIds : DeleteContentById(id)
  \/ \E u \in ActorIds, c \in ContentIds : ToggleLike(u, c)
  \/ \E t \in 0..MaxClock : ClockMoves(t)

SpecList == Init /\ [][NextList]_vars

\* C14: in every state, listContentsFiltered without filters and with sort
\* 'likes' has exactly one possible answer; it holds every content exactly
\* once, in the order of like count descending, then created_at descending,
\* then id descending.
C14_ListByLikesDetermined ==
  LET answers == ListAnswers(db, NULL, NoOwner, "likes")
  IN  /\ Cardinality(answers) = 1
      /\ \A rows \in answers :
           /\ listContentsFiltered(db, NULL, NoOwner, "likes") = rows
           /\ Cardinality(DOMAIN rows) = Cardinality(DOMAIN db.contents)
           /\ {rows[k].id : k \in DOMAIN rows} = DOMAIN db.contents
           /\ \A k, m \in DOMAIN rows :
                k < m =>
                  \/ rows[k].likeCount > rows[m].likeCount
                  \/ /\ rows[k].likeCount = rows[m].likeCount
                     /\ rows[k].createdAt > rows[m].createdAt
                  \/ /\ rows[k].likeCount = rows[m].likeCount
                     /\ rows[k].createdAt = rows[m].createdAt
                     /\ rows[k].id > rows[m].id
           /\ \A k \in DOMAIN rows : rows[k].likeCount = getLikeCount(db, rows[k].id)

\* Two contents with one like each, the one with the smaller id created at
\* the later second: it is listed first.
C14_Witness ==
  \E i, j \in DOMAIN db.contents :
    /\ i < j
    /\ getLikeCount(db, i) = 1 /\ getLikeCount(db, j) = 1
    /\ db.contents[i].created_at > db.contents[j].created_at
    /\ LET rows == listContentsFiltered(db, NULL, NoOwner, "likes")
       IN  rows[1].id = i /\ rows[2].id = j

(***************************************************************************)
(* Filters of listContentsFiltered                                         *)
(***************************************************************************)
ListCategoryInputs == {<<"s","i","f","i">>, <<"k","r","i","m","i">>}

ListOwnerIds == {1, 2}

FilterCategories ==
  {NULL, <<>>, <<"s","i","f","i">>, <<"k","r","i","m","i">>, <<"h","o","r","r","o","r">>}

FilterOwnerIds == {NoOwner, 1, 2, 3}

Sorts == {"newest", "likes"}

NextFilter ==
  \/ \E t \in StoreTitles, ds \in Descriptions, c \in ListCategoryInputs,
        i \in ImageInputs, o \in ListOwnerIds : InsertContent(t, ds, c, i, o)
  \/ \E id \in ContentIds : DeleteContentById(id)
  \/ \E u \in ListOwnerIds, c \in ContentIds : ToggleLike(u, c)

SpecFilter == Init /\ [][NextFilter]_vars

\* The rows of an answer are the contents of the set `expected`, each once,
\* each with its like count.
AnswersAre(category, ownerId, sort, expected) ==
  \A rows \in ListAnswers(db, category, ownerId, sort) :
    /\ {rows[k].id : k \in DOMAIN rows} = expected
    /\ Cardinality(DOMAIN rows) = Cardinality(expected)
    /\ \A k \in DOMAIN rows :
         /\ rows[k].likeCount = getLikeCount(db, rows[k].id)
         /\ rows[k].category = db.contents[rows[k].id].category
         /\ rows[k].ownerId = db.contents[rows[k].id].owner_id

\* C15 as claimed: only null is an absent filter; with a category given the
\* answer holds exactly the contents of that category, with an ownerId given
\* exactly those of that owner, with both exactly those of both.
C15_FilterAbsentOnlyWhenNull ==
  \A category \in FilterCategories, ownerId \in FilterOwnerIds, sort \in Sorts :
    AnswersAre(category, ownerId, sort,
      {i \in DOMAIN db.contents :
         /\ category = NULL \/ db.contents[i].category = category
         /\ ownerId = NoOwner \/ db.contents[i].owner_id = ownerId})

\* C15 as amended: a category that is null or the empty string, and an
\* ownerId that is null or 0, is an absent filter; every other filter is
\* applied, and each row carries getLikeCount of its content.
C15_FilterAbsentWhenFalsy ==
  \A category \in FilterCategories, ownerId \in FilterOwnerIds, sort \in Sorts :
    /\ ListAnswers(db, category, ownerId, sort) # {}
    /\ AnswersAre(category, ownerId, sort,
         {i \in DOMAIN db.contents :
            /\ category \in {NULL, <<>>} \/ db.contents[i].category = category
            /\ ownerId = NoOwner \/ db.contents[i].owner_id = ownerId})

\* Two contents of different category and owner, one of them liked: the
\* filter on its category and owner selects it alone, the filter on its
\* category and the other owner selects nothing.
C15_Witness ==
  \E i, j \in DOMAIN db.contents :
    /\ db.contents[i].category # db.contents[j].category
    /\ db.contents[i].owner_id # db.contents[j].owner_id
    /\ getLikeCount(db, j) = 1
    /\ listContentsFiltered(db, db.contents[j].category, db.contents[j].owner_id,
                            "newest") = <<ListedRow(db, j)>>
    /\ listContentsFiltered(db, db.contents[j].category, db.contents[i].owner_id,
                            "likes") = <<>>

\* Categories outside the enumeration: another word, the empty string, a
\* category in capitals, and null.
OtherCategories == {<<"x">>, <<>>, <<"S","I","F","I">>, NULL}

\* C16: in every state each content's category is one of 'sifi', 'krimi',
\* 'horror', 'komoedie'; insertContent with any other category, and
\* updateContent of a stored content with any other category, throw a
\* constraint error and leave the database as it was.
C16_CategoryEnumerated ==
  /\ \A i \in DOMAIN db.contents : db.contents[i].category \in CATEGORIES
  /\ \A c \in OtherCategories, t \in EditTitles, ds \in EditDescriptions :
       /\ \A o \in OwnerIds, im \in ImageInputs :
            LET r == insertContent(db, t, ds, c, im, o)
            IN  /\ r.threw /\ r.db = db
                /\ r.ret.code \in {"SQLITE_CONSTRAINT_CHECK", "SQLITE_CONSTRAINT_NOTNULL"}
       /\ \A id \in DOMAIN db.contents, im \in EditImageInputs :
            LET r == updateContent(db, id, t, ds, c, im)
            IN  /\ r.threw /\ r.db = db
                /\ r.ret.code \in {"SQLITE_CONSTRAINT_CHECK", "SQLITE_CONSTRAINT_NOTNULL"}

\* Contents of two categories are stored, one of them moved there by an
\* update; the update of it to another word throws.
C16_Witness ==
  \E i, j \in DOMAIN db.contents :
    /\ db.contents[i].category = <<"s","i","f","i">>
    /\ db.contents[j].category = <<"k","r","i","m","i">>
    /\ db.contents[j].title = <<"b">>
    /\ updateContent(db, j, <<"b">>, <<"d">>, <<"x">>, NULL).threw
    /\ insertContent(db, <<"a">>, <<"d">>, <<"x">>, <<"p">>, 1).threw

\* ---------------------------------------------------------------------------
\* Toggles of two requests in flight, statement by statement.


\* Calls of toggleLike and toggleFavorite by two requests whose statements
\* interleave, over contents that are inserted meanwhile.
NextToggle ==
  \/ \E t \in NewTitles, ds \in Descriptions, c \in CategoryInputs,
        i \in ImageInputs, o \in OwnerIds : InsertContent(t, ds, c, i, o)
  \/ \E p \in Procs :
       \/ \E u \in RaceActorIds, c \in ContentIds : ToggleLikeCheck(p, u, c)
       \/ ToggleLikeWrite(p)
       \/ ToggleLikeCount(p)
       \/ \E u \in RaceActorIds, c \in ContentIds : ToggleFavoriteCheck(p, u, c)
       \/ ToggleFavoriteWrite(p)

SpecToggle == Init /\ [][NextToggle]_vars

ToggleLikeStep ==
  \E p \in Procs :
    \/ \E u \in RaceActorIds, c \in ContentIds : ToggleLikeCheck(p, u, c)
    \/ ToggleLikeWrite(p)
    \/ ToggleLikeCount(p)

ToggleFavoriteStep ==
  \E p \in Procs :
    \/ \E u \in RaceActorIds, c \in ContentIds : ToggleFavoriteCheck(p, u, c)
    \/ ToggleFavoriteWrite(p)

\* C17: after every step of any sequence of toggleLike and toggleFavorite
\* calls, also of calls whose statements interleave, there is at most one
\* likes row and at most one favorites row per (user, content) pair; a step of
\* toggleLike leaves the favorites table as it was, and a step of
\* toggleFavorite leaves the likes table as it was.
C17_OneRowPerPairTablesApart ==
  [][/\ \A r \in DOMAIN db'.likes : db'.likes[r] = 1
     /\ \A r \in DOMAIN db'.favorites : db'.favorites[r] = 1
     /\ ToggleLikeStep => db'.favorites = db.favorites
     /\ ToggleFavoriteStep => db'.likes = db.likes]_vars

\* A like and a favorite of the same pair are stored, and a second insert of
\* the liked pair, by a request that had seen no row, was refused.
C17_Witness ==
  /\ <<1, 1>> \in DOMAIN db.likes
  /\ <<1, 1>> \in DOMAIN db.favorites
  /\ \E p \in Procs :
       /\ proc[p].pc = "threw" /\ proc[p].op = "toggleLike"
       /\ proc[p].args.userId = 1 /\ proc[p].args.contentId = 1

(***************************************************************************)
(* Restarts: processes that are started on one database file, work on it   *)
(* and are shut down.                                                      *)
(***************************************************************************)
Down == [pc |-> "down"]

\* Module load: db = ensureDatabase();
Startup(p) ==
  /\ proc[p].pc = "down"
  /\ db' = ensureDatabase(db)
  /\ proc' = [proc EXCEPT ![p] = [pc |-> "returned", op |-> "ensureDatabase"]]

\* closeDb() on SIGINT / SIGTERM, then process.exit.
Shutdown(p) ==
  /\ Free(p)
  /\ proc' = [proc EXCEPT ![p] = Down]
  /\ UNCHANGED db

InitStartup ==
  /\ db = NewFile
  /\ proc = [p \in Procs |-> Down]

ProcInsertUser(p, name, role) ==
  /\ db.seq.users < MaxUserId
  /\ Call(p, "insertUser", [name |-> name], insertUser(db, name, role))

ProcInsertContent(p, title, description, category, imagePath, ownerId) ==
  /\ db.seq.contents < MaxContentId
  /\ Call(p, "insertContent", [title |-> title],
          insertContent(db, title, description, category, imagePath, ownerId))

ProcToggleLike(p, userId, contentId) ==
  /\ BagCardinality(db.likes) < MaxLikes \/ hasUserLiked(db, userId, contentId)
  /\ Call(p, "toggleLike", [userId |-> userId, contentId |-> contentId],
          toggleLike(db, userId, contentId))

ProcToggleFavorite(p, userId, contentId) ==
  /\ BagCardinality(db.favorites) < MaxFavorites \/ isFavorite(db, userId, contentId)
  /\ Call(p, "toggleFavorite", [userId |-> userId, contentId |-> contentId],
          toggleFavorite(db, userId, contentId))

NextStartup ==
  \E p \in Procs :
    \/ Startup(p)
    \/ Shutdown(p)
    \/ ProcInsertUser(p, <<"n">>, <<"u","s","e","r">>)
    \/ \E t \in NewTitles, ds \in Descriptions, c \in CategoryInputs,
          i \in ImageInputs, o \in OwnerIds : ProcInsertContent(p, t, ds, c, i, o)
    \/ \E u \in RaceActorIds, c \in ContentIds : ProcToggleLike(p, u, c)
    \/ \E u \in RaceActorIds, c \in ContentIds : ProcToggleFavorite(p, u, c)

SpecStartup == InitStartup /\ [][NextStartup]_vars

\* Every row of the table t is a row of the table t2, with the same values.
RowsKept(t, t2) == \A i \in DOMAIN t : i \in DOMAIN t2 /\ t2[i] = t[i]

InsertedUsers == DOMAIN db'.users \ DOMAIN db.users

LegacyTitles == {<<"a">>, <<"A">>, <<"!">>}

\* What a row of such a file holds as slug: NULL (the column was added by
\* ALTER TABLE), the empty string, or a slug an earlier backfill stored.
LegacySlugs == {NULL, <<>>, <<"a">>}

LegacyRow(title, slug) ==
  [title |-> title, description |-> <<"d">>, category |-> <<"s","i","f","i">>,
   image_path |-> <<"p">>, owner_id |-> 1, slug |-> slug, created_at |-> 0]

\* The files: one user, the owner, and n contents; the slugs the rows have
\* are pairwise distinct.
LegacyFiles ==
  {[NewFile EXCEPT !.users = (1 :> SeedUser(<<"o">>, <<"u","s","e","r">>)),
                   !.contents = C,
                   !.seq = [users |-> 1, contents |-> n]] :
     <<n, C>> \in UNION {{<<m, F>> :
        F \in {G \in [1..m -> {LegacyRow(t, s) : t \in LegacyTitles, s \in LegacySlugs}] :
                 \A i, j \in 1..m :
                   (i # j /\ Truthy(G[i].slug)) => G[i].slug # G[j].slug}} :
        m \in 1..MaxContentId}}

StepErrors == {"SQLITE_BUSY", "SQLITE_IOERR"}

\* Mutation: the loop of the backfill run without instance.transaction.
RollbackMissing(d, begun) == d

\* ROLLBACK of the transaction that began when contents was `begun`.
Rollback(d, begun) == [d EXCEPT !.contents = begun]

\* migrate up to tx(rowsNeedingSlug): the SELECT, which has no ORDER BY, and
\* BEGIN.
MigrateSelect(p) ==
  /\ proc[p].pc \in {"down", "threw"}
  /\ RowsNeedingSlug(db) # {}
  /\ proc' = [proc EXCEPT ![p] =
       [pc |-> "tx", op |-> "migrate",
        args |-> [rows |-> RowsNeedingSlug(db), begun |-> db.contents]]]
  /\ UNCHANGED db

\* One turn of the loop, for any row that is left.
MigrateUpdate(p) ==
  /\ proc[p].pc = "tx"
  /\ \E id \in proc[p].args.rows :
       /\ db' = BackfillSlug(db, id)
       /\ proc' = [proc EXCEPT ![p].args.rows = @ \ {id}]

\* COMMIT after the last row, then the rest of migrate and seedDemoOnce.
MigrateCommit(p) ==
  /\ proc[p].pc = "tx"
  /\ proc[p].args.rows = {}
  /\ db' = seedDemoOnce(db)
  /\ proc' = [proc EXCEPT ![p] = [pc |-> "returned", op |-> "ensureDatabase"]]

\* A statement of the transaction throws: better-sqlite3 rolls the
\* transaction back and throws the error on, which ends the process.
MigrateThrow(p) ==
  /\ proc[p].pc = "tx"
  /\ \E code \in StepErrors :
       /\ db' = Rollback(db, proc[p].args.begun)
       /\ proc' = [proc EXCEPT ![p] =
            [pc |-> "threw", op |-> "migrate", args |-> proc[p].args,
             ret |-> [code |-> code]]]

BackfillProcs == {1}

InitBackfill ==
  /\ db \in LegacyFiles
  /\ proc = [p \in Procs |-> Down]

NextBackfill ==
  \E p \in BackfillProcs :
    \/ Startup(p)
    \/ Shutdown(p)
    \/ MigrateSelect(p)
    \/ MigrateUpdate(p)
    \/ MigrateCommit(p)
    \/ MigrateThrow(p)

SpecBackfill == InitBackfill /\ [][NextBackfill]_vars

\* Every row has a non-empty slug and no two rows have the same.
AllSlugged(C) ==
  /\ \A i \in DOMAIN C : C[i].slug # NULL /\ C[i].slug # <<>>
  /\ \A i, j \in DOMAIN C : i # j => C[i].slug # C[j].slug

\* C19: a run of the backfill that ends without an error leaves every row
\* of contents with a non-empty slug, all slugs pairwise distinct, the rows
\* that had one keeping theirs; a run in which a statement throws leaves
\* every row's slug as it was when the run began, however many rows had
\* been updated by then.
C19_BackfillAllOrNothing ==
  [][\A p \in Procs :
       /\ (MigrateCommit(p) \/ Startup(p)) => AllSlugged(db'.contents)
       /\ MigrateCommit(p) =>
            \A i \in DOMAIN db'.contents :
              Truthy(proc[p].args.begun[i].slug)
                => db'.contents[i].slug = proc[p].args.begun[i].slug
       /\ MigrateThrow(p) =>
            /\ DOMAIN db'.contents = DOMAIN proc[p].args.begun
            /\ \A i \in DOMAIN db'.contents :
                 db'.contents[i].slug = proc[p].args.begun[i].slug]_vars

\* A run threw after it had updated a row and before it had updated the
\* last one: both kinds of rows are again without a slug.
C19_Witness ==
  \E p \in Procs :
    /\ proc[p].pc = "threw" /\ proc[p].op = "migrate"
    /\ Cardinality(proc[p].args.rows) = 1
    /\ Cardinality(RowsNeedingSlug(db)) = 2
    /\ RowsNeedingSlug(db) = DOMAIN db.contents

(***************************************************************************)
(* slugify on every input up to MaxInputLen characters, and on its own     *)
(* results.                                                                *)
(***************************************************************************)
\* Letters of both cases, a digit, the hyphen, the blank, the ampersand,
\* punctuation, a precomposed umlaut and a combining mark on its own.
SlugChars == {"a", "A", "1", "-", " ", "&", "!", "U+00E4", "U+0308"}

SlugInputs == {NULL} \cup UNION {[1..n -> SlugChars] : n \in 0..MaxInputLen}

Slugify(p) ==
  /\ proc[p].pc = "idle"
  /\ proc' = [proc EXCEPT ![p] =
       [pc |-> "returned", op |-> "slugify", args |-> proc[p].args,
        ret |-> [slug |-> slugify(proc[p].args.input)]]]
  /\ UNCHANGED db

\* The result is passed to slugify as its input.
SlugifyResult(p) ==
  /\ proc[p].pc = "returned"
  /\ proc[p].ret.slug # proc[p].args.input
  /\ proc' = [proc EXCEPT ![p] =
       [pc |-> "idle", op |-> "slugify", args |-> [input |-> proc[p].ret.slug]]]
  /\ UNCHANGED db

SlugifyProcs == {1}

InitSlugify ==
  /\ db = NewFile
  /\ \E s \in SlugInputs :
       proc = [p \in Procs |-> [pc |-> "idle", op |-> "slugify", args |-> [input |-> s]]]

NextSlugify ==
  \E p \in SlugifyProcs :
    \/ Slugify(p)
    \/ SlugifyResult(p)

SpecSlugify == InitSlugify /\ [][NextSlugify]_vars

\* Only characters of [a-z0-9-], no hyphen at either end, no two hyphens in
\* a row.
WellFormedSlug(s) ==
  /\ \A i \in 1..Len(s) : s[i] \in LowerChars \cup DigitChars \cup {"-"}
  /\ s # <<>> => s[1] # "-" /\ s[Len(s)] # "-"
  /\ \A i \in 1..(Len(s) - 1) : ~(s[i] = "-" /\ s[i + 1] = "-")

\* C20: for every input s, slugify(slugify(s)) = slugify(s), and slugify(s)
\* consists of characters of [a-z0-9-] only, with no hyphen at its start or
\* end and no two adjacent hyphens.
C20_SlugifyIdempotentWellFormed ==
  \A p \in Procs :
    proc[p].pc = "returned" =>
      /\ slugify(proc[p].ret.slug) = proc[p].ret.slug
      /\ WellFormedSlug(proc[p].ret.slug)

\* The input "!a&" came back as "a-und": the leading run and the trailing
\* blank of ' und ' were trimmed.
C20_Witness ==
  \E p \in Procs :
    /\ proc[p].pc = "returned"
    /\ proc[p].args.input = <<"!", "a", "&">>
    /\ proc[p].ret.slug = <<"a", "-", "u", "n", "d">>

(***************************************************************************)
(* Slug resolution: inserts of titles with one normalized form, and        *)
(* deletes that free slugs again.                                          *)
(***************************************************************************)
SlugTitles == {<<"a">>, <<"A">>, <<"!">>}

\* The base slugs makeUniqueContentSlug is asked for: what slugify gives for
\* the titles, a slug that carries a suffix already, and the empty base.
BaseSlugs == {<<>>, <<"a">>, <<"a", "-", "2">>, <<"e","i","n","t","r","a","g">>}

InsertSlugged(title, description, category, imagePath, ownerId) ==
  /\ db.seq.contents < MaxSlugRows
  /\ db' = insertContent(db, title, description, category, imagePath, ownerId).db
  /\ UNCHANGED proc

NextSlugs ==
  \/ \E t \in SlugTitles, ds \in Descriptions, c \in CategoryInputs,
        i \in ImageInputs, o \in OwnerIds : InsertSlugged(t, ds, c, i, o)
  \/ \E id \in 1..MaxSlugRows : DeleteContentById(id)

SpecSlugs == Init /\ [][NextSlugs]_vars

CurrentSlugs == {db.contents[i].slug : i \in DOMAIN db.contents}

\* C21: makeUniqueContentSlug(base) is base ('eintrag' for the empty base)
\* when no content has that slug; otherwise it is base-k for the smallest
\* k >= 2 such that base-k is no content's slug, whatever was deleted before.
C21_SmallestFreeSuffix ==
  \A baseSlug \in BaseSlugs :
    LET base == IF baseSlug = <<>> THEN <<"e","i","n","t","r","a","g">> ELSE baseSlug
        r    == makeUniqueContentSlug(db, baseSlug)
    IN  IF base \notin CurrentSlugs THEN r = base
        ELSE \E k \in 2..(Cardinality(CurrentSlugs) + 1) :
               /\ r = Suffixed(base, k)
               /\ r \notin CurrentSlugs
               /\ \A j \in 2..(k - 1) : Suffixed(base, j) \in CurrentSlugs

\* Three contents got the slugs a, a-2 and a-3; the second was deleted, and
\* the freed a-2 is what the next content of that base gets.  The empty base
\* resolves to 'eintrag'.
C21_Witness ==
  /\ DOMAIN db.contents = {1, 3}
  /\ db.seq.contents = 3
  /\ db.contents[1].slug = <<"a">>
  /\ db.contents[3].slug = <<"a", "-", "3">>
  /\ db.contents[3].title \in {<<"a">>, <<"A">>}
  /\ makeUniqueContentSlug(db, <<"a">>) = <<"a", "-", "2">>
  /\ makeUniqueContentSlug(db, <<>>) = <<"e","i","n","t","r","a","g">>

\* C22: no step changes the slug of a content that is stored before and
\* after it, whatever title updateContent gives the content, and
\* getContentBySlug with that slug returns the same content after the step.
C22_SlugKeptUntilDeleted ==
  [][\A i \in DOMAIN db.contents :
       i \in DOMAIN db'.contents =>
         /\ db'.contents[i].slug = db.contents[i].slug
         /\ getContentBySlug(db', db.contents[i].slug) # undefined
         /\ getContentBySlug(db', db.contents[i].slug).id = i]_vars

\* Two contents created as 'a' have the slugs a and a-2; the first was
\* renamed to 'b', whose normalized form is no slug of the table, and is
\* still the content getContentBySlug('a') returns.
C22_Witness ==
  /\ DOMAIN db.contents = {1, 2}
  /\ db.contents[1].title = <<"b">>
  /\ db.contents[1].slug = <<"a">>
  /\ db.contents[2].slug = <<"a", "-", "2">>
  /\ slugify(db.contents[1].title) # db.contents[1].slug
  /\ getContentBySlug(db, <<"a">>).id = 1
  /\ getContentBySlug(db, <<"b">>) = undefined

\* The ids a call may name: those of the stored rows and others.
AnyUserIds == 0..(MaxUserId + 1)

AnyContentIds == 0..(MaxContentId + 1)

\* C23: in every state every likes row and every favorites row names a
\* stored user and a stored content, and every content's owner_id names a
\* stored user; toggleLike and toggleFavorite with a user id or a content id
\* that names no row, and insertContent with an owner id that names no user,
\* throw and leave the database as it was.
C23_ReferencesResolve ==
  /\ \A r \in DOMAIN db.likes \cup DOMAIN db.favorites :
       r[1] \in DOMAIN db.users /\ r[2] \in DOMAIN db.contents
  /\ \A i \in DOMAIN db.contents : db.contents[i].owner_id \in DOMAIN db.users
  /\ \A u \in AnyUserIds, c \in AnyContentIds :
       (u \notin DOMAIN db.users \/ c \notin DOMAIN db.contents) =>
         /\ toggleLike(db, u, c).threw /\ toggleLike(db, u, c).db = db
         /\ toggleFavorite(db, u, c).threw /\ toggleFavorite(db, u, c).db = db
  /\ \A o \in AnyUserIds \ DOMAIN db.users, t \in StoreTitles, ds \in Descriptions,
        c \in CategoryInputs, i \in ImageInputs :
       /\ insertContent(db, t, ds, c, i, o).threw
       /\ insertContent(db, t, ds, c, i, o).db = db

\* A content of user 2 is stored, liked and favorited, after the first
\* content was deleted; a like by user 0, a like of the deleted content and
\* an insert for owner 0 are refused with the foreign key error.
C23_Witness ==
  /\ DOMAIN db.contents = {2}
  /\ db.contents[2].owner_id = 2
  /\ DOMAIN db.likes # {}
  /\ DOMAIN db.favorites # {}
  /\ toggleLike(db, 0, 2).ret = [code |-> "SQLITE_CONSTRAINT_FOREIGNKEY"]
  /\ toggleLike(db, 1, 1).ret = [code |-> "SQLITE_CONSTRAINT_FOREIGNKEY"]
  /\ insertContent(db, <<"a">>, <<"d">>, <<"s","i","f","i">>, <<"p">>, 0).ret
       = [code |-> "SQLITE_CONSTRAINT_FOREIGNKEY"]

====
